---- MODULE Spec2Model ----
(***************************************************************************)
(* A model of tuning.py: process_sessions (block discovery by the regular  *)
(* expression, the assertion on n_last, the per-session loop) and          *)
(* find_osc_period (detrend, real-input DFT, argmax, rfftfreq).            *)
(*                                                                         *)
(* The log text is a sequence of tokens.  The multi-character literals of  *)
(* the regular expression ("start", "end") are one token each; every other *)
(* token is one character.  No other token contains a letter of "start" or *)
(* "end", so a literal matches exactly where its token stands, and "one or *)
(* more characters" is "one or more tokens".  The characters that occur   *)
(* are the digits, the sign, the point, the comma, the blank, the line     *)
(* break, the two brackets and the letter x, which stands for any text     *)
(* that is no number.                                                      *)
(*                                                                         *)
(* Gains and frequencies are exact rationals <<numerator, denominator>>;   *)
(* the rounding of floating-point arithmetic is not modelled.              *)
(***************************************************************************)
EXTENDS Integers, Sequences, FiniteSets, TLC

\* ------------------------------------------------------------------ bounds
\* The regions of a text, the values of n_last, and, where find_osc_period
\* is called on its own, the sample values and the length of the series.
MaxRegions == 3
MaxNLast == 3
MaxSample == 2
MaxLen == 5

\* --------------------------------------------------------- program constant
SAMPLING_RATE == 10

\* ------------------------------------------------------------------ tokens
NL == "nl"
SP == " "
START == "start"
END == "end"
LBR == "["
RBR == "]"
COMMA == ","

DigitTokens == <<"0", "1", "2", "3", "4", "5", "6", "7", "8", "9">>

IsDigit(t) == \E i \in 1..10 : DigitTokens[i] = t

DigitVal(t) == (CHOOSE i \in 1..10 : DigitTokens[i] = t) - 1

\* str.strip and int()/float() treat blanks and line breaks as whitespace.
IsSpace(t) == t \in {SP, NL}

\* ------------------------------------------------------------ small helpers
RECURSIVE SumSeq(_)
SumSeq(s) == IF s = <<>> THEN 0 ELSE Head(s) + SumSeq(Tail(s))

RECURSIVE Gcd(_, _)
Gcd(a, b) == IF b = 0 THEN a ELSE Gcd(b, a % b)

Abs(a) == IF a < 0 THEN -a ELSE a

\* A sequence given by a rule, held with its elements worked out.
AsTuple(f) == f \o <<>>

\* The rational n/d (d # 0) in lowest terms with a positive denominator.
Frac(n, d) ==
    LET g == Gcd(Abs(n), Abs(d))
        s == IF d < 0 THEN -1 ELSE 1
    IN  <<(s * n) \div g, (s * d) \div g>>

RECURSIVE Pow10(_)
Pow10(k) == IF k = 0 THEN 1 ELSE 10 * Pow10(k - 1)

\* --------------------------------------------------------------- the regex
\* '^start(.+?)end.+?\[(.+?)\]$' with MULTILINE | DOTALL.

\* ^ under MULTILINE: the start of the text or just after a line break.
AtLineStart(text, p) == p = 1 \/ text[p - 1] = NL

\* $ under MULTILINE: the end of the text or just before a line break.
AtLineEnd(text, r) == r = Len(text) \/ text[r + 1] = NL

\* A pattern \[(\d+)\] instead: only digits between the brackets.
CloseOkNumeric(text, l, r) ==
    /\ r >= l + 2 /\ text[r] = RBR /\ (r = Len(text) \/ text[r + 1] = NL)
    /\ \A i \in (l + 1)..(r - 1) : IsDigit(text[i])

\* \](dollar) can close the match at r when the bracket opened at l:
\* (.+?) between them holds at least one character.
CloseOk(text, l, r) == r >= l + 2 /\ text[r] = RBR /\ AtLineEnd(text, r)

\* \[ can stand at l after an "end" at e: .+? between them holds at least
\* one character, and some closing bracket follows.
OpenOk(text, e, l) ==
    /\ l >= e + 2
    /\ text[l] = LBR
    /\ \E r \in l..Len(text) : CloseOk(text, l, r)

\* "end" can stand at e after a "start" at p: (.+?) between them holds at
\* least one character, and the rest of the pattern can match.
EndOk(text, p, e) ==
    /\ e >= p + 2
    /\ text[e] = END
    /\ \E l \in e..Len(text) : OpenOk(text, e, l)

Min(S) == CHOOSE x \in S : \A y \in S : x <= y

\* The match the backtracking matcher finds at p, if any: every quantifier
\* is lazy, so the first success is the least e, then the least l, then the
\* least r.
MatchesAt(text, p) ==
    /\ AtLineStart(text, p)
    /\ text[p] = START
    /\ \E e \in p..Len(text) : EndOk(text, p, e)

MatchAt(text, p) ==
    LET e == Min({x \in p..Len(text) : EndOk(text, p, x)})
        l == Min({x \in e..Len(text) : OpenOk(text, e, x)})
        r == Min({x \in l..Len(text) : CloseOk(text, l, x)})
    IN  [pos |-> p, e |-> e, l |-> l, r |-> r]

\* The scan going on one character after the start of the match, as an
\* overlapping search would.
ResumeOverlapping(m) == m.pos + 1

\* Where the scan goes on after the match m: just after its last character.
Resume(m) == m.r + 1

\* re.findall: leftmost matches, scanning on after each match.
RECURSIVE FindSpans(_, _)
FindSpans(text, p) ==
    IF p > Len(text) THEN <<>>
    ELSE IF MatchesAt(text, p)
         THEN LET m == MatchAt(text, p)
              IN  <<m>> \o FindSpans(text, Resume(m))
         ELSE FindSpans(text, p + 1)

\* The two groups of a match: (session, gain).
Groups(text, m) ==
    <<SubSeq(text, m.pos + 1, m.e - 1), SubSeq(text, m.l + 1, m.r - 1)>>

GroupsOf(text, ms) == AsTuple([i \in 1..Len(ms) |-> Groups(text, ms[i])])

FindAll(text) == GroupsOf(text, FindSpans(text, 1))

\* ------------------------------------------------------ strings and numbers
\* str.split('\n'): n line breaks give n + 1 pieces.
RECURSIVE SplitOn(_, _, _)
SplitOn(s, sep, cur) ==
    IF s = <<>> THEN <<cur>>
    ELSE IF Head(s) = sep THEN <<cur>> \o SplitOn(Tail(s), sep, <<>>)
         ELSE SplitOn(Tail(s), sep, Append(cur, Head(s)))

Split(s, sep) == SplitOn(s, sep, <<>>)

RECURSIVE LStrip(_)
LStrip(s) == IF s # <<>> /\ IsSpace(Head(s)) THEN LStrip(Tail(s)) ELSE s

RECURSIVE RStrip(_)
RStrip(s) ==
    IF s # <<>> /\ IsSpace(s[Len(s)]) THEN RStrip(SubSeq(s, 1, Len(s) - 1))
    ELSE s

\* str.strip
Strip(s) == RStrip(LStrip(s))

\* filter(None, ...): the empty strings go.
RECURSIVE FilterNonEmpty(_)
FilterNonEmpty(ss) ==
    IF ss = <<>> THEN <<>>
    ELSE IF Head(ss) = <<>> THEN FilterNonEmpty(Tail(ss))
         ELSE <<Head(ss)>> \o FilterNonEmpty(Tail(ss))

\* filter(None, map(str.strip, session.split('\n')))
SessionData(session) ==
    LET parts == Split(session, NL)
    IN  FilterNonEmpty(AsTuple([i \in 1..Len(parts) |-> Strip(parts[i])]))

\* The field after the last comma instead of the one before the first.
LastField(entry) == Split(entry, COMMA)[Len(Split(entry, COMMA))]

\* entry.split(',')[0]
FirstField(entry) == Split(entry, COMMA)[1]

RECURSIVE DigitsVal(_)
DigitsVal(ds) ==
    IF ds = <<>> THEN 0
    ELSE 10 * DigitsVal(SubSeq(ds, 1, Len(ds) - 1)) + DigitVal(ds[Len(ds)])

AllDigits(ds) == \A i \in 1..Len(ds) : IsDigit(ds[i])

HasSign(t) == t # <<>> /\ Head(t) \in {"-", "+"}

Unsigned(t) == IF HasSign(t) THEN Tail(t) ELSE t

SignOf(t) == IF t # <<>> /\ Head(t) = "-" THEN -1 ELSE 1

\* int(s): whitespace around, an optional sign, one or more digits.
IntParse(s) ==
    LET t == Strip(s)
        ds == Unsigned(t)
    IN  IF ds # <<>> /\ AllDigits(ds)
        THEN [ok |-> TRUE, val |-> SignOf(t) * DigitsVal(ds)]
        ELSE [ok |-> FALSE, val |-> 0]

\* float(s): whitespace around, an optional sign, digits with at most one
\* point among them and at least one digit.  The value is a rational
\* <<numerator, denominator>>.
FloatParse(s) ==
    LET t == Strip(s)
        ds == Unsigned(t)
        parts == Split(ds, ".")
        ip == parts[1]
        fp == IF Len(parts) = 2 THEN parts[2] ELSE <<>>
    IN  IF /\ Len(parts) <= 2
           /\ AllDigits(ip) /\ AllDigits(fp)
           /\ Len(ip) + Len(fp) >= 1
        THEN [ok |-> TRUE,
              val |-> Frac(SignOf(t) * DigitsVal(ip \o fp), Pow10(Len(fp)))]
        ELSE [ok |-> FALSE, val |-> <<0, 1>>]

\* The division by 1000 left out.
GainNotScaled(gain) ==
    [ok |-> FloatParse(gain).ok, val |-> FloatParse(gain).val]

\* float(gain) / 1000.0
GainOf(gain) ==
    LET f == FloatParse(gain)
    IN  [ok |-> f.ok, val |-> Frac(f.val[1], f.val[2] * 1000)]

\* ------------------------------------------------------------ the estimator
\* Exact arithmetic stands for the floating-point arithmetic of numpy.  The
\* numbers that are compared are of the form a + b * sqrt(5), held as
\* <<a, b>> (b = 0 unless the series has five samples); the squared DFT
\* magnitudes of an integral series have this form for the series lengths
\* 1 to 6, which are the lengths the model draws.

\* No mean subtracted: the series as it is (times its length).
DetrendNone(data) == AsTuple([i \in 1..Len(data) |-> Len(data) * data[i]])

\* signal.detrend(data, type='constant'): data - mean(data).  The series is
\* held multiplied by its length N so that it stays integral; rfft is
\* linear and argmax of the magnitudes does not change under a positive
\* factor.
Detrend(data) ==
    LET total == SumSeq(data)
    IN  AsTuple([i \in 1..Len(data) |-> Len(data) * data[i] - total])

\* A sampling period that rejects every rate that is not positive.
SamplingPeriodChecked(sampling_rate) ==
    IF sampling_rate <= 0
    THEN [ok |-> FALSE, val |-> <<0, 1>>]
    ELSE [ok |-> TRUE, val |-> Frac(1, sampling_rate)]

\* 1 / sampling_rate, as a rational; division by zero raises.
SamplingPeriod(sampling_rate) ==
    IF sampling_rate = 0
    THEN [ok |-> FALSE, val |-> <<0, 1>>]
    ELSE [ok |-> TRUE, val |-> Frac(1, sampling_rate)]

\* 4 * cos(2 * pi * j / N) as <<a, b>> for a + b * sqrt(5).
Cos4(N, j) ==
    LET i == j % N
    IN  CASE N = 1 -> <<4, 0>>
          [] N = 2 -> <<4 - 8 * i, 0>>
          [] N = 3 -> IF i = 0 THEN <<4, 0>> ELSE <<-2, 0>>
          [] N = 4 -> <<<<4, 0>>, <<0, 0>>, <<-4, 0>>, <<0, 0>>>>[i + 1]
          [] N = 5 -> IF i = 0 THEN <<4, 0>>
                      ELSE IF i \in {1, 4} THEN <<-1, 1>> ELSE <<-1, -1>>
          [] N = 6 -> <<<<4, 0>>, <<2, 0>>, <<-2, 0>>,
                        <<-4, 0>>, <<-2, 0>>, <<2, 0>>>>[i + 1]

\* The circular autocorrelation of y: the entry m + 1 is that of lag m.
AutoCorr(y) ==
    LET N == Len(y)
    IN  AsTuple([m \in 1..N |->
            SumSeq([n \in 1..N |-> y[n] * y[((n + m - 2) % N) + 1]])])

\* 4 * |rfft(y)[k]|^2 from the autocorrelation ac of y: the sum over the
\* lags m of ac[m + 1] * 4 * cos(2 pi k m / N).
Power4(ac, k) ==
    LET N == Len(ac)
    IN  <<SumSeq([m \in 1..N |-> ac[m] * Cos4(N, k * (m - 1))[1]]),
          SumSeq([m \in 1..N |-> ac[m] * Cos4(N, k * (m - 1))[2]])>>

\* abs(rfft(y)): one entry per bin 0..N div 2, held as 4 * |.|^2 (squaring
\* keeps the order of non-negative magnitudes).
RfftAbs(y) ==
    LET ac == AutoCorr(y)
    IN  AsTuple([i \in 1..(Len(y) \div 2) + 1 |-> Power4(ac, i - 1)])

\* a + b * sqrt(5) > 0
Positive(a, b) ==
    \/ a > 0 /\ b >= 0
    \/ a >= 0 /\ b > 0
    \/ a > 0 /\ b < 0 /\ a * a > 5 * b * b
    \/ a < 0 /\ b > 0 /\ 5 * b * b > a * a

Greater(p, q) == Positive(p[1] - q[1], p[2] - q[2])

\* numpy.argmax: the first index (from 0) of the largest entry.
ArgMax(mags) ==
    (CHOOSE i \in 1..Len(mags) :
        /\ \A j \in 1..Len(mags) : ~Greater(mags[j], mags[i])
        /\ \A j \in 1..(i - 1) : Greater(mags[i], mags[j])) - 1

\* The reciprocal of the bin's frequency (0 for bin 0): a period.
RfftPeriod(n, d, idx) ==
    IF idx = 0 THEN <<0, 1>> ELSE Frac(n * d[1], idx * d[2])

\* rfftfreq(n, d)[idx]: idx * (1 / (n * d)).
RfftFreq(n, d, idx) == Frac(idx * d[2], n * d[1])

\* An estimator that answers 0 for an empty series instead of raising.
FindOscPeriodLenient(data, sampling_rate) ==
    IF sampling_rate = 0
    THEN [ok |-> FALSE, err |-> "ZeroDivisionError", val |-> <<0, 1>>]
    ELSE IF Len(data) = 0
    THEN [ok |-> TRUE, err |-> "", val |-> <<0, 1>>]
    ELSE [ok |-> TRUE, err |-> "",
          val |-> RfftFreq(Len(data), Frac(1, sampling_rate),
                           ArgMax(RfftAbs(Detrend(data))))]

\* find_osc_period(data, sampling_rate): the returned value, or the error
\* that is raised.
FindOscPeriod(data, sampling_rate) ==
    LET sp == SamplingPeriod(sampling_rate)
        y == Detrend(data)
    IN  IF ~sp.ok
        THEN [ok |-> FALSE, err |-> "ZeroDivisionError", val |-> <<0, 1>>]
        ELSE IF Len(y) = 0
        THEN [ok |-> FALSE, err |-> "ValueError", val |-> <<0, 1>>]
        ELSE [ok |-> TRUE, err |-> "",
              val |-> RfftFreq(Len(y), sp.val, ArgMax(RfftAbs(y)))]

\* ---------------------------------------------------------------- the state
VARIABLES
    text,           \* process_sessions: the text read from the file
    n_last,         \* process_sessions: the parameter
    pc,             \* process_sessions: "idle", "read", "loop", "done", "raised"
    sessions,       \* the list findall returned: <<session, gain>> pairs
    spans,          \* where each entry of sessions lies in the text
    sid,            \* the loop variable (from 0)
    sid_dict,       \* the dictionary being filled
    raised,         \* the exception that ended the call, or ""
    conversions,    \* how many float(...) and int(...) calls were made
    calls,          \* the calls of find_osc_period made: <<sid, data, rate>>
    data,           \* find_osc_period called alone: the series
    sampling_rate,  \* find_osc_period called alone: the rate
    offset,         \* a constant to add to every sample
    epc,            \* "idle", "ready", "estimated", "compared"
    period,         \* what find_osc_period(data, sampling_rate) gave
    shifted         \* what find_osc_period(data + offset, sampling_rate) gave

vars == <<text, n_last, pc, sessions, spans, sid, sid_dict, raised,
          conversions, calls, data, sampling_rate, offset, epc, period,
          shifted>>

parserVars == <<text, n_last, pc, sessions, spans, sid, sid_dict, raised,
                conversions, calls>>

estimatorVars == <<data, sampling_rate, offset, epc, period, shifted>>

\* ------------------------------------------------------------- the log texts
\* A text is up to MaxRegions regions, one after the other, each a few lines
\* drawn from Regions; the lines are joined by line breaks.
Regions == <<
    \* start / 1,0 / -3,1 / end [1500]
    << <<START>>, <<"1", COMMA, "0">>, <<"-", "3", COMMA, "1">>,
       <<END, SP, LBR, "1", "5", "0", "0", RBR>> >>,
    \* start / " 2,5 " / "" / " " / 4,1 / 4,2 / end [2000]
    << <<START>>, <<SP, "2", COMMA, "5", SP>>, <<>>, <<SP>>,
       <<"4", COMMA, "1">>, <<"4", COMMA, "2">>,
       <<END, SP, LBR, "2", "0", "0", "0", RBR>> >>,
    \* start / end [2000]: no sample line between the markers
    << <<START>>, <<END, SP, LBR, "2", "0", "0", "0", RBR>> >>,
    \* start / x,0 / end [2000]: a sample that is no number
    << <<START>>, <<"x", COMMA, "0">>,
       <<END, SP, LBR, "2", "0", "0", "0", RBR>> >>,
    \* start / 1,0 / end [x]: a gain that is no number
    << <<START>>, <<"1", COMMA, "0">>, <<END, SP, LBR, "x", RBR>> >>,
    \* start / 3,1 / 1,0: no end marker
    << <<START>>, <<"3", COMMA, "1">>, <<"1", COMMA, "0">> >>,
    \* start / 1,0 / end: an end marker without brackets
    << <<START>>, <<"1", COMMA, "0">>, <<END>> >>,
    \* start / 1,0 / end [2.5]: a decimal gain
    << <<START>>, <<"1", COMMA, "0">>, <<END, SP, LBR, "2", ".", "5", RBR>> >>,
    \* " start" / 1,0 / end [1500]: start is not the first thing on its line
    << <<SP, START>>, <<"1", COMMA, "0">>,
       <<END, SP, LBR, "1", "5", "0", "0", RBR>> >>,
    \* startend / 1,0 / end [1500]: nothing between start and the first end
    << <<START, END>>, <<"1", COMMA, "0">>,
       <<END, SP, LBR, "1", "5", "0", "0", RBR>> >>,
    \* start / 1,0 / end[7]: nothing between end and the bracket
    << <<START>>, <<"1", COMMA, "0">>, <<END, LBR, "7", RBR>> >>,
    \* start / 1,0 / "end [1500] ": the bracket does not end the line
    << <<START>>, <<"1", COMMA, "0">>,
       <<END, SP, LBR, "1", "5", "0", "0", RBR, SP>> >>
>>

RECURSIVE Concat(_)
Concat(ss) == IF ss = <<>> THEN <<>> ELSE Head(ss) \o Concat(Tail(ss))

\* '\n'.join(lines)
RECURSIVE Join(_)
Join(lines) ==
    IF lines = <<>> THEN <<>>
    ELSE IF Len(lines) = 1 THEN lines[1]
         ELSE lines[1] \o <<NL>> \o Join(Tail(lines))

TextOf(kinds) == Join(Concat([i \in 1..Len(kinds) |-> Regions[kinds[i]]]))

Texts ==
    {TextOf(ks) : ks \in UNION {[1..n -> 1..Len(Regions)] : n \in 0..MaxRegions}}

NoResult == [ok |-> FALSE, err |-> "", val |-> <<0, 1>>]

EmptyDict == [k \in {} |-> <<>>]

\* ---------------------------------------------------------- process_sessions
\* The assertion left out: whatever was found is processed.
AssertDropped(k, n) == TRUE

\* assert len(sessions) >= n_last
AssertHolds(k, n) == k >= n

\* The lower end of range(len(sessions) - n_last, len(sessions)).
RangeLow(k, n) == k - n

\* The key counted within the processed sessions instead of among all.
SessionKeyRenumbered(i) == i - (Len(sessions) - n_last) + 1

\* sid_dict[sid + 1] = ...: the key of the session at index sid.
SessionKey(i) == i + 1

\* The entries the loop over session_data converts, in order, each
\* int(entry.split(',')[0]).
Converted(session) ==
    LET es == SessionData(session)
    IN  AsTuple([i \in 1..Len(es) |-> IntParse(FirstField(es[i]))])

\* How many of them are converted before the first that raises (all of them
\* when none does).
GoodPrefix(cs) ==
    IF \A i \in 1..Len(cs) : cs[i].ok THEN Len(cs)
    ELSE Min({i \in 1..Len(cs) : ~cs[i].ok}) - 1

DictPut(d, k, v) ==
    [x \in (DOMAIN d) \cup {k} |-> IF x = k THEN v ELSE d[x]]

InitParser ==
    /\ text \in Texts
    /\ n_last \in 0..MaxNLast
    /\ pc = "read"
    /\ sessions = <<>>
    /\ spans = <<>>
    /\ sid = 0
    /\ sid_dict = EmptyDict
    /\ raised = ""
    /\ conversions = 0
    /\ calls = <<>>

IdleParser ==
    /\ text = <<>>
    /\ n_last = 0
    /\ pc = "idle"
    /\ sessions = <<>>
    /\ spans = <<>>
    /\ sid = 0
    /\ sid_dict = EmptyDict
    /\ raised = ""
    /\ conversions = 0
    /\ calls = <<>>

\* Lines 59-68: read, findall, the assertion, the empty dictionary, and the
\* first value of the loop variable.
ReadAndMatch ==
    /\ pc = "read"
    /\ spans' = FindSpans(text, 1)
    /\ sessions' = GroupsOf(text, spans')
    /\ sid_dict' = EmptyDict
    /\ IF AssertHolds(Len(sessions'), n_last)
       THEN /\ pc' = "loop"
            /\ sid' = Len(sessions') - 1
            /\ raised' = ""
       ELSE /\ pc' = "raised"
            /\ sid' = sid
            /\ raised' = "AssertionError"
    /\ UNCHANGED <<text, n_last, conversions, calls, estimatorVars>>

\* Lines 69-79: one turn of the loop.
ProcessSession ==
    /\ pc = "loop"
    /\ sid >= RangeLow(Len(sessions), n_last)
    /\ LET session == sessions[sid + 1][1]
           gain == GainOf(sessions[sid + 1][2])
           cs == Converted(session)
           good == GoodPrefix(cs)
           series == AsTuple([i \in 1..good |-> cs[i].val])
           res == FindOscPeriod(series, SAMPLING_RATE)
       IN  IF ~gain.ok
           THEN /\ pc' = "raised"
                /\ raised' = "ValueError"
                /\ conversions' = conversions + 1
                /\ UNCHANGED <<sid, sid_dict, calls>>
           ELSE IF good < Len(cs)
           THEN /\ pc' = "raised"
                /\ raised' = "ValueError"
                /\ conversions' = conversions + 1 + good + 1
                /\ UNCHANGED <<sid, sid_dict, calls>>
           ELSE /\ conversions' = conversions + 1 + good
                /\ calls' = Append(calls, <<sid, series, SAMPLING_RATE>>)
                /\ IF res.ok
                   THEN /\ sid_dict' =
                              DictPut(sid_dict, SessionKey(sid),
                                      <<gain.val, res.val>>)
                        /\ sid' = sid - 1
                        /\ UNCHANGED <<pc, raised>>
                   ELSE /\ pc' = "raised"
                        /\ raised' = res.err
                        /\ UNCHANGED <<sid, sid_dict>>
    /\ UNCHANGED <<text, n_last, sessions, spans, estimatorVars>>

\* Line 80: the loop is over, the dictionary is returned.
Return ==
    /\ pc = "loop"
    /\ sid < RangeLow(Len(sessions), n_last)
    /\ pc' = "done"
    /\ UNCHANGED <<text, n_last, sessions, spans, sid, sid_dict, raised,
                   conversions, calls, estimatorVars>>

\* ----------------------------------------------- find_osc_period on its own
Samples == 0..MaxSample
Offsets == {-1, 1, 1000}
Rates == {-10, 0, 8, SAMPLING_RATE}

Shift(s, c) == [i \in 1..Len(s) |-> s[i] + c]

InitEstimator ==
    /\ data \in UNION {[1..n -> Samples] : n \in 0..MaxLen}
    /\ sampling_rate \in Rates
    /\ offset \in Offsets
    /\ epc = "ready"
    /\ period = NoResult
    /\ shifted = NoResult

IdleEstimator ==
    /\ data = <<>>
    /\ sampling_rate = SAMPLING_RATE
    /\ offset = 0
    /\ epc = "idle"
    /\ period = NoResult
    /\ shifted = NoResult

\* find_osc_period(data, sampling_rate)
Estimate ==
    /\ epc = "ready"
    /\ period' = FindOscPeriod(data, sampling_rate)
    /\ epc' = "estimated"
    /\ UNCHANGED <<data, sampling_rate, offset, shifted, parserVars>>

\* find_osc_period(data + offset, sampling_rate)
EstimateShifted ==
    /\ epc = "estimated"
    /\ shifted' = FindOscPeriod(Shift(data, offset), sampling_rate)
    /\ epc' = "compared"
    /\ UNCHANGED <<data, sampling_rate, offset, period, parserVars>>

\* ------------------------------------------------------- the specifications
Init == InitParser /\ IdleEstimator

Next == ReadAndMatch \/ ProcessSession \/ Return

Spec == Init /\ [][Next]_vars

InitEst == IdleParser /\ InitEstimator

NextEst == Estimate \/ EstimateShifted

SpecEst == InitEst /\ [][NextEst]_vars

\* ================================================================ the claims
\* What the claims speak of, stated over the text and the state, apart from
\* the operators that model the code.

\* The number of blocks that block discovery found.
K == Len(sessions)

Finished == pc \in {"done", "raised"}

Matched == pc \in {"loop", "done", "raised"}

RECURSIVE Sorted(_)
Sorted(S) == IF S = {} THEN <<>> ELSE <<Min(S)>> \o Sorted(S \ {Min(S)})

\* The lines of a piece of text b: where each starts, and what it holds.
LineStarts(b) == {1} \cup {i + 1 : i \in {j \in 1..Len(b) : b[j] = NL}}

LineFrom(b, s) ==
    LET brk == {j \in s..Len(b) : b[j] = NL}
    IN  SubSeq(b, s, (IF brk = {} THEN Len(b) + 1 ELSE Min(brk)) - 1)

NonBlank(line) == \E i \in 1..Len(line) : line[i] # SP

\* The non-blank lines of b, top to bottom.
NonBlankLines(b) ==
    LET ss == Sorted({s \in LineStarts(b) : NonBlank(LineFrom(b, s))})
    IN  AsTuple([i \in 1..Len(ss) |-> LineFrom(b, ss[i])])

\* The text of a line before its first comma, blanks around it dropped.
Reading(line) ==
    LET cs == {i \in 1..Len(line) : line[i] = COMMA}
        upto == IF cs = {} THEN Len(line) ELSE Min(cs) - 1
        ink == {i \in 1..upto : line[i] # SP}
    IN  IF ink = {} THEN <<>>
        ELSE SubSeq(line, Min(ink), CHOOSE i \in ink : \A j \in ink : j <= i)

\* An integer numeral: an optional sign and one or more digits.
IsInteger(s) ==
    /\ s # <<>>
    /\ LET ds == IF s[1] \in {"-", "+"} THEN Tail(s) ELSE s
       IN  ds # <<>> /\ \A i \in 1..Len(ds) : IsDigit(ds[i])

RECURSIVE Numeral(_)
Numeral(ds) ==
    IF ds = <<>> THEN 0
    ELSE Numeral(SubSeq(ds, 1, Len(ds) - 1)) * 10 + DigitVal(ds[Len(ds)])

IntegerOf(s) ==
    IF s[1] = "-" THEN 0 - Numeral(Tail(s))
    ELSE IF s[1] = "+" THEN Numeral(Tail(s)) ELSE Numeral(s)

\* The series a body denotes: the reading of each non-blank line.
SeriesOf(b) ==
    LET ls == NonBlankLines(b)
    IN  AsTuple([i \in 1..Len(ls) |-> IntegerOf(Reading(ls[i]))])

\* A well-formed block: an integer gain, at least one non-blank line, and an
\* integer reading on each.
WellFormed(block) ==
    LET ls == NonBlankLines(block[1])
    IN  /\ IsInteger(block[2])
        /\ ls # <<>>
        /\ \A i \in 1..Len(ls) : IsInteger(Reading(ls[i]))

\* A block with no usable sample line.
NoSampleLine(block) == NonBlankLines(block[1]) = <<>>

\* C1: when every discovered block is well-formed and 0 <= n_last <= k, the
\* call returns a dictionary whose keys are exactly k - n_last + 1 .. k, the
\* positions of the processed blocks among all k blocks.
C1_KeysAreAbsolutePositions ==
    (/\ Finished
     /\ n_last <= K
     /\ \A i \in 1..K : WellFormed(sessions[i]))
    => /\ pc = "done"
       /\ DOMAIN sid_dict = (K - n_last + 1)..K
       /\ Cardinality(DOMAIN sid_dict) = n_last

C1_Witness ==
    /\ pc = "done"
    /\ K = 3
    /\ n_last = 2
    /\ \A i \in 1..K : WellFormed(sessions[i])
    /\ DOMAIN sid_dict = {2, 3}

\* C2: when n_last exceeds the number of discovered blocks, the call ends in
\* the assertion failure, returns no dictionary, and has by then converted
\* no gain or sample and called the estimator not once.
C2_InsufficientSessionsFail ==
    (Matched /\ n_last > K)
    => /\ pc = "raised"
       /\ raised = "AssertionError"
       /\ conversions = 0
       /\ calls = <<>>
       /\ sid_dict = EmptyDict

C2_Witness ==
    /\ pc = "raised"
    /\ raised = "AssertionError"
    /\ K = 2
    /\ n_last = 3
    /\ \A i \in 1..K : WellFormed(sessions[i])

\* C8: every call of the estimator passes the series of the block it was
\* made for (one integer per non-blank body line, the text before the first
\* comma, which is an integer numeral, in the order of the lines) and the
\* sampling rate 10.
C8_SeriesPassedToEstimator ==
    \A c \in 1..Len(calls) :
        /\ calls[c][1] + 1 \in 1..K
        /\ \A i \in 1..Len(NonBlankLines(sessions[calls[c][1] + 1][1])) :
              IsInteger(Reading(NonBlankLines(sessions[calls[c][1] + 1][1])[i]))
        /\ calls[c][2] = SeriesOf(sessions[calls[c][1] + 1][1])
        /\ Len(calls[c][2]) = Len(NonBlankLines(sessions[calls[c][1] + 1][1]))
        /\ calls[c][3] = 10

C8_Witness ==
    /\ pc = "done"
    /\ \E c \in 1..Len(calls) :
          /\ calls[c][2] = <<2, 4, 4>>
          /\ calls[c][3] = 10
          /\ Len(Split(sessions[calls[c][1] + 1][1], NL)) > 5
    /\ \E c \in 1..Len(calls) : calls[c][2] = <<1, -3>>

StartsAt ==
    {p \in 1..Len(text) : text[p] = START /\ (p = 1 \/ text[p - 1] = NL)}

RegionEnd(p) ==
    LET later == {q \in StartsAt : q > p}
    IN  IF later = {} THEN Len(text) ELSE Min(later) - 1

EndsLine(r) == r = Len(text) \/ text[r + 1] = NL

\* From p up to hi there is an "end", then a "[", then a "]" closing a line,
\* with at least one character between each and after "start".
Marker(p, hi) ==
    \E e \in (p + 2)..hi :
        /\ text[e] = END
        /\ \E l \in (e + 2)..hi :
              /\ text[l] = LBR
              /\ \E r \in (l + 2)..hi : text[r] = RBR /\ EndsLine(r)

OwnMarker(p) == Marker(p, RegionEnd(p))

LaterMarker(p) == Marker(p, Len(text))

\* The region at p ends in a marker "end [<digits>]" of its own.
NumericMarker(p) ==
    LET hi == RegionEnd(p)
    IN  \E e \in (p + 2)..(hi - 4) :
            /\ text[e] = END /\ text[e + 1] = SP /\ text[e + 2] = LBR
            /\ \E r \in (e + 4)..hi :
                  /\ text[r] = RBR /\ EndsLine(r)
                  /\ \A i \in (e + 3)..(r - 1) : IsDigit(text[i])

\* A numeral as float() reads it, here an optional sign, digits and at most
\* one point, with whitespace around it allowed.
Bare(s) ==
    LET ink == {i \in 1..Len(s) : s[i] \notin {SP, NL}}
    IN  IF ink = {} THEN <<>>
        ELSE SubSeq(s, Min(ink), CHOOSE i \in ink : \A j \in ink : j <= i)

Unsign(s) == IF s # <<>> /\ s[1] \in {"-", "+"} THEN Tail(s) ELSE s

IsDecimal(s) ==
    LET b == Unsign(Bare(s))
    IN  /\ \A i \in 1..Len(b) : IsDigit(b[i]) \/ b[i] = "."
        /\ Cardinality({i \in 1..Len(b) : b[i] = "."}) <= 1
        /\ \E i \in 1..Len(b) : IsDigit(b[i])

IsDigitToken(t) == IsDigit(t)

\* The digits of a decimal numeral read as one integer, and how many of
\* them stand after the point.
DecimalDigits(s) ==
    (IF Bare(s)[1] = "-" THEN -1 ELSE 1)
        * Numeral(SelectSeq(Unsign(Bare(s)), IsDigitToken))

DecimalPlaces(s) ==
    LET b == Unsign(Bare(s))
        pt == {i \in 1..Len(b) : b[i] = "."}
    IN  IF pt = {} THEN 0 ELSE Len(b) - Min(pt)

\* C3 (as claimed): a region whose end marker is missing or whose bracketed
\* gain is not a number is not matched: every discovered block is a region
\* with a numeric marker of its own, stays inside that region, and the
\* blocks are numbered as if the other regions were absent.
C3_MalformedExcluded ==
    Matched
    => /\ \A i \in 1..Len(spans) :
             /\ NumericMarker(spans[i].pos)
             /\ spans[i].r <= RegionEnd(spans[i].pos)
       /\ [i \in 1..Len(spans) |-> spans[i].pos]
             = Sorted({p \in StartsAt : NumericMarker(p)})

\* C3 (amended): a region outside every earlier block is matched whenever
\* its marker can be completed: inside the region whatever stands between
\* the brackets, otherwise from a later region, which it then runs into; it
\* is left out only when no marker follows at all.  A matched block whose
\* gain is not a number ends the call in ValueError when it is among the
\* last n_last.
C3_MalformedMatchedOrAbsorbing ==
    /\ Matched
       => \A p \in StartsAt :
            LET covered == \E i \in 1..Len(spans) :
                              spans[i].pos < p /\ p <= spans[i].r
                found == \E i \in 1..Len(spans) : spans[i].pos = p
                m == CHOOSE x \in {spans[i] : i \in 1..Len(spans)} : x.pos = p
            IN  ~covered
                => /\ OwnMarker(p) => found /\ m.r <= RegionEnd(p)
                   /\ (~OwnMarker(p) /\ LaterMarker(p))
                         => found /\ m.r > RegionEnd(p)
                   /\ ~LaterMarker(p) => ~found
    /\ (/\ Finished
        /\ n_last <= K
        /\ \E i \in (K - n_last + 1)..K : ~IsDecimal(sessions[i][2]))
       => pc = "raised" /\ raised = "ValueError"

\* A block with a gain that is no number is block 1, a region without
\* brackets of its own is block 2 with the gain of the region after it, and
\* the call for the last block returns it under the key 2.
C3_Witness ==
    /\ pc = "done"
    /\ K = 2
    /\ n_last = 1
    /\ sessions[1][2] = <<"x">>
    /\ ~OwnMarker(spans[2].pos)
    /\ spans[2].r > RegionEnd(spans[2].pos)
    /\ DOMAIN sid_dict = {2}
    /\ sid_dict[2][1] = <<3, 2>>

\* C4 (as claimed): the blocks lie in textual order without overlap; each
\* begins at a line starting with "start", its body ends at the first "end"
\* after it, and its gain is the text between the brackets that follow.
C4_BlocksAsClaimed ==
    Matched
    => /\ Len(sessions) = Len(spans)
       /\ \A i \in 1..Len(spans) :
            LET m == spans[i]
            IN  /\ m.pos \in StartsAt
                /\ m.e = Min({x \in (m.pos + 1)..Len(text) : text[x] = END})
                /\ m.l = Min({x \in (m.e + 1)..Len(text) : text[x] = LBR})
                /\ m.r = Min({x \in (m.l + 1)..Len(text) : text[x] = RBR})
                /\ sessions[i] = <<SubSeq(text, m.pos + 1, m.e - 1),
                                   SubSeq(text, m.l + 1, m.r - 1)>>
       /\ \A i \in 1..(Len(spans) - 1) : spans[i].r < spans[i + 1].pos

\* C4 (amended): as claimed, but each of the three pieces holds at least one
\* character: the body ends at the first "end" that stands at least one
\* character after "start", the gain runs from the first "[" at least one
\* character after that "end" to the first "]" that lies at least one
\* character on and closes a line.
C4_BlocksInOrderDisjoint ==
    Matched
    => /\ Len(sessions) = Len(spans)
       /\ \A i \in 1..Len(spans) :
            LET m == spans[i]
            IN  /\ m.pos \in StartsAt
                /\ m.e = Min({x \in (m.pos + 2)..Len(text) : text[x] = END})
                /\ m.l = Min({x \in (m.e + 2)..Len(text) : text[x] = LBR})
                /\ m.r = Min({x \in (m.l + 2)..Len(text) :
                                text[x] = RBR /\ EndsLine(x)})
                /\ sessions[i] = <<SubSeq(text, m.pos + 1, m.e - 1),
                                   SubSeq(text, m.l + 1, m.r - 1)>>
       /\ \A i \in 1..(Len(spans) - 1) : spans[i].r < spans[i + 1].pos

\* Three blocks, the second one beginning "startend".
C4_Witness ==
    /\ Matched
    /\ Len(spans) = 3
    /\ text[spans[2].pos + 1] = END
    /\ spans[2].e > spans[2].pos + 1
    /\ spans[1].r < spans[2].pos
    /\ spans[2].r < spans[3].pos

\* C5 (as claimed): every returned gain is the integer between the brackets
\* of its own block, divided by 1000.
C5_GainIsIntegerOverThousand ==
    pc = "done"
    => \A k \in DOMAIN sid_dict :
          /\ sessions[k][2] = SubSeq(text, spans[k].l + 1, spans[k].r - 1)
          /\ IsInteger(sessions[k][2])
          /\ sid_dict[k][1][1] * 1000
                = IntegerOf(sessions[k][2]) * sid_dict[k][1][2]

\* C5 (amended): every returned gain is the number between the brackets of
\* its own block as float() reads it, an integer or a decimal numeral,
\* divided by 1000.
C5_GainIsNumberOverThousand ==
    pc = "done"
    => \A k \in DOMAIN sid_dict :
          /\ sessions[k][2] = SubSeq(text, spans[k].l + 1, spans[k].r - 1)
          /\ IsDecimal(sessions[k][2])
          /\ sid_dict[k][1][2] > 0
          /\ sid_dict[k][1][1] * 1000 * Pow10(DecimalPlaces(sessions[k][2]))
                = DecimalDigits(sessions[k][2]) * sid_dict[k][1][2]

\* Blocks ending "end [2.5]", "end [1500]" and "end [2000]" give the gains
\* 1/400, 3/2 and 2.
C5_Witness ==
    /\ pc = "done"
    /\ DOMAIN sid_dict = {1, 2, 3}
    /\ sessions[1][2] = <<"2", ".", "5">> /\ sid_dict[1][1] = <<1, 400>>
    /\ sessions[2][2] = <<"1", "5", "0", "0">> /\ sid_dict[2][1] = <<3, 2>>
    /\ sessions[3][2] = <<"2", "0", "0", "0">> /\ sid_dict[3][1] = <<2, 1>>

\* The bins of a series of N samples, and the bin i being the dominant one
\* of the mean-removed series: no bin is larger, every lower bin is smaller.
Bins(N) == 0..(N \div 2)

Spectrum(series) == RfftAbs(Detrend(series))

Dominant(mags, i) ==
    /\ \A j \in 0..(Len(mags) - 1) : ~Greater(mags[j + 1], mags[i + 1])
    /\ \A j \in 0..(i - 1) : Greater(mags[i + 1], mags[j + 1])

Estimated == epc \in {"estimated", "compared"}

IsConstant(series) == \A i \in 1..Len(series) : series[i] = series[1]

C10_NonPositiveRateFails ==
    (Estimated /\ Len(data) >= 1 /\ sampling_rate <= 0) => ~period.ok

\* C10 (amended): find_osc_period fails for the rate 0, whatever the series;
\* for a negative rate r and a non-empty series of N samples it returns
\* i * r / N, a value that is not positive, for the dominant bin i.
C10_ZeroRateFails ==
    Estimated
    => /\ sampling_rate = 0
          => ~period.ok /\ period.err = "ZeroDivisionError"
       /\ (sampling_rate < 0 /\ Len(data) >= 1)
          => /\ period.ok
             /\ period.val[1] <= 0
             /\ LET mags == Spectrum(data)
                IN  \E i \in Bins(Len(data)) :
                       /\ Dominant(mags, i)
                       /\ period.val[1] * Len(data)
                             = i * sampling_rate * period.val[2]

C10_Witness ==
    /\ Estimated
    /\ sampling_rate = -10
    /\ data = <<0, 1>>
    /\ period.ok
    /\ period.val = <<-5, 1>>

====
